---- MODULE Spec2Model ----
(***************************************************************************)
(* Model of the outlier-score filters of rmmtools (util/filters.py):       *)
(* mscore, the rolling-median modified Z-score, and sn_score, the rolling  *)
(* Sn-scale score, each with and without a grouping key.                   *)
(*                                                                         *)
(* Numbers.  Inputs are integers.  A float64 result is a pair <<n, d>>:    *)
(* d > 0 is the rational n/d in lowest terms, <<0,0>> is NaN, <<1,0>> is   *)
(* +inf and <<-1,0>> is -inf, so that a division by zero yields what IEEE  *)
(* arithmetic yields.  Medians of an even number of integers are           *)
(* half-integers: a name ending in 2 holds twice the quantity, a name      *)
(* ending in 4 four times the quantity.  Rounding error is not modelled.   *)
(*                                                                         *)
(* A pandas Series is a record [index, values] of two sequences of the     *)
(* same length.  The caller's series x has the index 1..Len(x).            *)
(*                                                                         *)
(* The module also models the script-support helpers integerize            *)
(* (util/filters.py), check_not_none, listify and safe_filename            *)
(* (util/general/general_util.py) and the standard options of              *)
(* CommandLineParser (util/parser.py).  A call of a helper is the record   *)
(* call of its arguments; its outcome is the record ret, which either      *)
(* returns a value or raises an exception.                                 *)
(***************************************************************************)
EXTENDS Integers, Sequences, FiniteSets

VARIABLES
    x, xtype, groupby, window, center, cutoff, norm, fn, pc, series,
    call, ret, files, now, parser

\* The state of a call of mscore / sn_score.
filterVars == <<x, xtype, groupby, window, center, cutoff, norm, fn, pc, series>>

\* The state of a call of a helper: its arguments and outcome, the paths that
\* exist, the clock and the parser's registered options.
utilVars == <<call, ret, files, now, parser>>

vars == <<filterVars, utilVars>>

\* ------------------------------------------------------------- bounds
MaxLen == 4
MaxWindow == 4
MaxGroupLen == 3
Values == {-1, 0, 1, 3}
GroupValues == {0, 1, 3}
Keys == {1, 2}
Cutoffs == {0, 1}
\* groupby=None.  A key holds one entry per observation, and the keyed calls
\* of the model score at least one observation.
None == <<>>

\* ------------------------------------------------------------- floats
Abs(a) == IF a < 0 THEN -a ELSE a

Sign(a) == IF a < 0 THEN -1 ELSE IF a > 0 THEN 1 ELSE 0

RECURSIVE Gcd(_, _)
Gcd(a, b) == IF b = 0 THEN a ELSE Gcd(b, a % b)

NaN == <<0, 0>>

PosInf == <<1, 0>>

NegInf == <<-1, 0>>

IsFinite(f) == f[2] > 0

\* n / d for integers n, d as float64 division: x/0 is +-inf, 0/0 is NaN.
Frac(n, d) ==
    IF d = 0 THEN <<Sign(n), 0>>
    ELSE LET g == Gcd(Abs(n), Abs(d))
             s == Sign(d)
         IN  <<(s * n) \div g, (s * d) \div g>>

\* f * (nm[1] / nm[2]) for a float f and a finite positive-denominator nm.
Times(f, nm) ==
    IF IsFinite(f) THEN Frac(f[1] * nm[1], f[2] * nm[2])
    ELSE IF f = NaN \/ nm[1] = 0 THEN NaN
    ELSE <<f[1] * Sign(nm[1]), 0>>

\* ------------------------------------------------------------- medians
RECURSIVE Insert(_, _)
Insert(v, s) ==
    IF s = <<>> THEN <<v>>
    ELSE IF v <= Head(s) THEN <<v>> \o s
    ELSE <<Head(s)>> \o Insert(v, Tail(s))

RECURSIVE SortSeq(_)
SortSeq(s) == IF s = <<>> THEN <<>> ELSE Insert(Head(s), SortSeq(Tail(s)))

\* The lower of the two middle elements taken for the median.
Median2LowerMiddle(s) == 2 * SortSeq(s)[(Len(s) + 1) \div 2]

\* Twice the median of a non-empty sequence of integers: the middle element,
\* or the mean of the two middle elements.
Median2(s) ==
    LET t == SortSeq(s)
        n == Len(s)
    IN  t[(n + 1) \div 2] + t[(n + 2) \div 2]

\* ------------------------------------------------------------- rolling
Clip(a, lo, hi) == IF a < lo THEN lo ELSE IF a > hi THEN hi ELSE a

\* The window offset of rolling(window, center): a centred window reaches
\* (window - 1) \div 2 positions ahead, a trailing one none.
\* The centred offset whatever the flag.
WindowOffsetCentred(w, c) == (w - 1) \div 2

WindowOffset(w, c) == IF c THEN (w - 1) \div 2 ELSE 0

\* The (1-based) positions of the window at position i of n values.
WindowLast(i, n, w, c) == Clip(i + WindowOffset(w, c), 0, n)

WindowFirst(i, n, w, c) == Clip(i + WindowOffset(w, c) - w, 0, n) + 1

\* rolling(window, center, min_periods=1): the values of the window at i.
Rolling(s, i, w, c) ==
    SubSeq(s, WindowFirst(i, Len(s), w, c), WindowLast(i, Len(s), w, c))

\* ------------------------------------------------------------- mscore
\* x.rolling(window, center, min_periods=1).median(), doubled.
RollingMedian2(s, w, c) ==
    [i \in 1..Len(s) |-> Median2(Rolling(s, i, w, c))]

\* The mean absolute deviation (rounded down) in place of the median one.
Mad4Mean(s, median2) ==
    LET dev == [i \in 1..Len(s) |-> Abs(2 * s[i] - median2[i])]
        RECURSIVE Sum(_)
        Sum(t) == IF t = <<>> THEN 0 ELSE Head(t) + Sum(Tail(t))
    IN  (2 * Sum(dev)) \div Len(s)

\* (x - median).abs().median(), times four; taken only of a non-empty s.
Mad4(s, median2) ==
    Median2([i \in 1..Len(s) |-> Abs(2 * s[i] - median2[i])])

\* The cutoff applied to the medians at or below it.
CutoffMedianInclusive(r, m2, cut) == IF cut # 0 /\ m2 <= 2 * cut THEN NaN ELSE r

\* if cutoff: series.loc[median < cutoff] = np.nan, at one position with the
\* score r and the doubled rolling median m2.
CutoffMedian(r, m2, cut) == IF cut # 0 /\ m2 < 2 * cut THEN NaN ELSE r

\* A series of zeros in place of the undefined scores.
ZeroSeries(s) == [i \in 1..Len(s) |-> <<0, 1>>]

\* pd.Series(data=np.nan, index=x.index)
NaNSeries(s) == [i \in 1..Len(s) |-> NaN]

\* The values of mscore(x, None, window, center, cutoff, norm).  The median
\* of an empty series is NaN and NaN > 0.0 is false.
MscoreValues(s, w, c, cut, nm) ==
    LET median2 == RollingMedian2(s, w, c)
    IN  IF s = <<>> THEN NaNSeries(s)
        ELSE LET mad4 == Mad4(s, median2)
             IN  IF mad4 > 0
                 THEN [i \in 1..Len(s) |->
                         CutoffMedian(Frac(2 * (2 * s[i] - median2[i]) * nm[1],
                                           mad4 * nm[2]),
                                      median2[i], cut)]
                 ELSE NaNSeries(s)

PositionIndex(s) == [i \in 1..Len(s) |-> i]

mscore(s, w, c, cut, nm) ==
    [index |-> PositionIndex(s), values |-> MscoreValues(s, w, c, cut, nm)]

\* ------------------------------------------------------------- sn_score
\* DataFrame(d[:, None] - d).abs().median(), doubled: for each element d[k] of
\* the window the median over j of |d[j] - d[k]| (its own zero included).
base_func2(d) ==
    [k \in 1..Len(d) |-> Median2([j \in 1..Len(d) |-> Abs(d[j] - d[k])])]

\* The entry of the window's first element.
numerator_func4First(d) == 2 * base_func2(d)[1]

\* numerator_func(d), times four: the entry of the window's last element.
numerator_func4(d) == 2 * base_func2(d)[Len(d)]

\* sn_func(d), times four: the median of the per-element medians.
sn_func4(d) == Median2(base_func2(d))

\* rous = (numerator - sn) / sn at one position.
Rous(num4, sn4) == Frac(num4 - sn4, sn4)

\* The cutoff left out.
CutoffSnSkipped(r, sn4, cut) == r

\* if cutoff: rous.loc[sn < cutoff] = np.nan
CutoffSn(r, sn4, cut) == IF cut # 0 /\ sn4 < 4 * cut THEN NaN ELSE r

\* The infinities left in.
ReplaceInfSkipped(r) == r

\* rous.replace(np.inf, np.nan); rous.replace(-np.inf, np.nan)
ReplaceInf(r) == IF r = PosInf \/ r = NegInf THEN NaN ELSE r

\* The undefined scores left in.
FillNaSkipped(r) == r

\* rous.fillna(0)
FillNa(r) == IF r = NaN THEN <<0, 1>> ELSE r

\* The score of one window d.
SnWindowScore(d, cut, nm) ==
    LET numerator4 == numerator_func4(d)
        sn4 == sn_func4(d)
    IN  Times(FillNa(ReplaceInf(CutoffSn(Rous(numerator4, sn4), sn4, cut))), nm)

\* Scores of the complete windows only.
SnScoreValuesFullWindows(s, w, c, cut, nm) ==
    LET all == [i \in 1..Len(s) |-> SnWindowScore(Rolling(s, i, w, c), cut, nm)]
    IN  SubSeq(all, IF w <= Len(s) THEN w ELSE Len(s) + 1, Len(s))

\* The values of sn_score(x, None, window, center, cutoff, norm).
SnScoreValues(s, w, c, cut, nm) ==
    [i \in 1..Len(s) |-> SnWindowScore(Rolling(s, i, w, c), cut, nm)]

sn_score(s, w, c, cut, nm) ==
    [index |-> PositionIndex(s), values |-> SnScoreValues(s, w, c, cut, nm)]

\* The function the call names, without a grouping key.
Score(f, s, w, c, cut, nm) ==
    IF f = "mscore" THEN mscore(s, w, c, cut, nm) ELSE sn_score(s, w, c, cut, nm)

NoSeries == [index |-> <<>>, values |-> <<>>]

\* The in-place writes going to x itself: x holds 0 wherever the write of the
\* cutoff, the replacement of the infinities or fillna(0) left NaN or zero.
XAfterCallInPlace(f, s, w, c, cut, nm) ==
    LET scores == Score(f, s, w, c, cut, nm).values
    IN  [i \in 1..Len(s) |-> IF scores[i] \in {NaN, <<0, 1>>} THEN 0 ELSE s[i]]

\* The caller's x after mscore / sn_score: rolling(), x - median and the
\* arithmetic on the rolling results make new objects, and every in-place
\* write (series.loc[...] = nan, rous.loc[...] = nan, rous.replace(...,
\* inplace=True), rous.fillna(0, inplace=True), series.name = ...) goes to
\* one of those, so x holds what it held.
XAfterCall(f, s, w, c, cut, nm) == s

\* ------------------------------------------------------------- groupby
\* The positions of s that satisfy Test, in increasing order.
RECURSIVE PositionsFrom(_, _, _)
PositionsFrom(keys, g, i) ==
    IF i > Len(keys) THEN <<>>
    ELSE IF keys[i] = g THEN <<i>> \o PositionsFrom(keys, g, i + 1)
    ELSE PositionsFrom(keys, g, i + 1)

\* The index of the group g of x.groupby(keys): the positions whose key is g.
GroupIndex(keys, g) == PositionsFrom(keys, g, 1)

\* The group g of x.groupby(keys): the values at those positions, in order.
Group(s, keys, g) ==
    LET idx == GroupIndex(keys, g) IN [j \in 1..Len(idx) |-> s[idx[j]]]

\* The group keys in the order groupby visits them (sorted).
GroupKeys(keys) == SortSeq(
    LET present == {keys[i] : i \in 1..Len(keys)}
        RECURSIVE AsSeq(_)
        AsSeq(S) == IF S = {} THEN <<>>
                    ELSE LET k == CHOOSE k \in S : TRUE
                         IN  <<k>> \o AsSeq(S \ {k})
    IN  AsSeq(present))

\* The value of center when the caller leaves it out.
DefaultCenter(f) == f = "mscore"

\* The lambda without center=center: each group scored with the default.
ApplyToGroupDefaultCenter(f, s, keys, g, w, c, cut, nm) ==
    [index |-> GroupIndex(keys, g),
     values |-> Score(f, Group(s, keys, g), w, DefaultCenter(f), cut, nm).values]

\* The lambda applied to the whole sequence, the group's rows picked after.
ApplyToGroupWhole(f, s, keys, g, w, c, cut, nm) ==
    LET idx == GroupIndex(keys, g)
        whole == Score(f, s, w, c, cut, nm).values
    IN  [index |-> idx, values |-> [j \in 1..Len(idx) |-> whole[idx[j]]]]

\* What the lambda of groupby(...).apply returns for the group g: the function
\* called without a key on the group alone, with the group's own index.
ApplyToGroup(f, s, keys, g, w, c, cut, nm) ==
    [index |-> GroupIndex(keys, g),
     values |-> Score(f, Group(s, keys, g), w, c, cut, nm).values]

\* x.groupby(keys).apply(...): the groups' results one after the other, each
\* index entry prefixed with its group key.
RECURSIVE ConcatGroups(_, _, _, _, _, _, _, _)
ConcatGroups(f, s, keys, gs, w, c, cut, nm) ==
    IF gs = <<>> THEN NoSeries
    ELSE LET one == ApplyToGroup(f, s, keys, Head(gs), w, c, cut, nm)
             rest == ConcatGroups(f, s, keys, Tail(gs), w, c, cut, nm)
         IN  [index |-> [j \in 1..Len(one.index) |-> <<Head(gs), one.index[j]>>]
                          \o rest.index,
              values |-> one.values \o rest.values]

\* mscore / sn_score called with a grouping key.
GroupedScore(f, s, keys, w, c, cut, nm) ==
    ConcatGroups(f, s, keys, GroupKeys(keys), w, c, cut, nm)

\* ------------------------------------------------------------- state
\* No helper is being called.
NoCall == [fn |-> "none"]

NoRet == [kind |-> "none"]

NoParser == [std_opts |-> {}, defaults |-> <<>>]

UtilIdle ==
    /\ call = NoCall
    /\ ret = NoRet
    /\ files = {}
    /\ now = 0
    /\ parser = NoParser

Inputs == UNION {[1..n -> Values] : n \in 0..MaxLen}

MscoreNorm == <<6745, 10000>>

SnNorm == <<11926, 10000>>

DefaultNorm(f) == IF f = "mscore" THEN MscoreNorm ELSE SnNorm

Init ==
    /\ x \in Inputs
    /\ xtype = "Series"
    /\ groupby = None
    /\ window \in 1..MaxWindow
    /\ center \in BOOLEAN
    /\ cutoff \in Cutoffs
    /\ fn \in {"mscore", "sn_score"}
    /\ norm = DefaultNorm(fn)
    /\ pc = "start"
    /\ series = NoSeries
    /\ UtilIdle

CallMscore ==
    /\ pc = "start"
    /\ xtype = "Series"
    /\ fn = "mscore"
    /\ groupby = None
    /\ series' = mscore(x, window, center, cutoff, norm)
    /\ x' = XAfterCall("mscore", x, window, center, cutoff, norm)
    /\ pc' = "done"
    /\ UNCHANGED <<xtype, groupby, window, center, cutoff, norm, fn>>
    /\ UNCHANGED utilVars

CallSnScore ==
    /\ pc = "start"
    /\ xtype = "Series"
    /\ fn = "sn_score"
    /\ groupby = None
    /\ series' = sn_score(x, window, center, cutoff, norm)
    /\ x' = XAfterCall("sn_score", x, window, center, cutoff, norm)
    /\ pc' = "done"
    /\ UNCHANGED <<xtype, groupby, window, center, cutoff, norm, fn>>
    /\ UNCHANGED utilVars

\* A new observation arrives and the caller scores the longer sequence with
\* the same arguments.
Extend(v) ==
    /\ pc = "done"
    /\ groupby = None
    /\ Len(x) < MaxLen
    /\ x' = Append(x, v)
    /\ series' = Score(fn, x', window, center, cutoff, norm)
    /\ UNCHANGED <<xtype, groupby, window, center, cutoff, norm, fn, pc>>
    /\ UNCHANGED utilVars

\* The caller drops the latest observation and scores the shorter sequence
\* with the same arguments.
Truncate ==
    /\ pc = "done"
    /\ groupby = None
    /\ Len(x) > 0
    /\ x' = SubSeq(x, 1, Len(x) - 1)
    /\ series' = Score(fn, x', window, center, cutoff, norm)
    /\ UNCHANGED <<xtype, groupby, window, center, cutoff, norm, fn, pc>>
    /\ UNCHANGED utilVars

Next ==
    \/ CallMscore
    \/ CallSnScore
    \/ \E v \in Values : Extend(v)
    \/ Truncate

Spec == Init /\ [][Next]_vars

\* ------------------------------------------------------------- grouped calls
GroupInputs == UNION {[1..n -> GroupValues] : n \in 1..MaxGroupLen}

InitGroup ==
    /\ x \in GroupInputs
    /\ xtype = "Series"
    /\ groupby \in [1..Len(x) -> Keys]
    /\ window \in 1..MaxGroupLen
    /\ center \in BOOLEAN
    /\ cutoff \in Cutoffs
    /\ fn \in {"mscore", "sn_score"}
    /\ norm = DefaultNorm(fn)
    /\ pc = "start"
    /\ series = NoSeries
    /\ UtilIdle

CallMscoreGrouped ==
    /\ pc = "start"
    /\ xtype = "Series"
    /\ fn = "mscore"
    /\ groupby # None
    /\ series' = GroupedScore("mscore", x, groupby, window, center, cutoff, norm)
    /\ x' = XAfterCall("mscore", x, window, center, cutoff, norm)
    /\ pc' = "done"
    /\ UNCHANGED <<xtype, groupby, window, center, cutoff, norm, fn>>
    /\ UNCHANGED utilVars

CallSnScoreGrouped ==
    /\ pc = "start"
    /\ xtype = "Series"
    /\ fn = "sn_score"
    /\ groupby # None
    /\ series' = GroupedScore("sn_score", x, groupby, window, center, cutoff, norm)
    /\ x' = XAfterCall("sn_score", x, window, center, cutoff, norm)
    /\ pc' = "done"
    /\ UNCHANGED <<xtype, groupby, window, center, cutoff, norm, fn>>
    /\ UNCHANGED utilVars

\* The value after v in the cyclic order of the observable values.
NextValue(v) ==
    IF \E u \in GroupValues : u > v
    THEN CHOOSE u \in GroupValues : u > v /\ \A t \in GroupValues : t > v => u <= t
    ELSE CHOOSE u \in GroupValues : \A t \in GroupValues : u <= t

\* One observation of one group is revised (to the next observable value)
\* and the caller scores the sequence again with the same key and arguments.
Revise(p) ==
    /\ pc = "done"
    /\ groupby # None
    /\ p \in 1..Len(x)
    /\ x' = [x EXCEPT ![p] = NextValue(x[p])]
    /\ series' = GroupedScore(fn, x', groupby, window, center, cutoff, norm)
    /\ UNCHANGED <<xtype, groupby, window, center, cutoff, norm, fn, pc>>
    /\ UNCHANGED utilVars

NextGroup ==
    \/ CallMscoreGrouped
    \/ CallSnScoreGrouped
    \/ \E p \in 1..MaxGroupLen : Revise(p)

SpecGroup == InitGroup /\ [][NextGroup]_vars

\* ------------------------------------------------------------- end-to-end call
\* The sequence of the end-to-end example, and the sequences that differ from
\* it in the size of the last observation.
ExampleInput == <<1, 2, 3, 4, 100>>

ExampleInputs ==
    {[ExampleInput EXCEPT ![Len(ExampleInput)] = v] :
        v \in 1..ExampleInput[Len(ExampleInput)]}

\* mscore(x, window=5): center=True, cutoff=0 and norm=0.6745 by default.
InitExample ==
    /\ x \in ExampleInputs
    /\ xtype = "Series"
    /\ groupby = None
    /\ window = Len(ExampleInput)
    /\ center = TRUE
    /\ cutoff = 0
    /\ fn = "mscore"
    /\ norm = MscoreNorm
    /\ pc = "start"
    /\ series = NoSeries
    /\ UtilIdle

NextExample == CallMscore

SpecExample == InitExample /\ [][NextExample]_vars

\* ------------------------------------------------------------- twin groups
\* A sequence made of two identical groups: g followed by g.
TwinInputs == {g \o g : g \in GroupInputs}

\* The key that tells the two halves of a twin sequence apart.
TwinKeys(s) == [i \in 1..Len(s) |-> IF 2 * i <= Len(s) THEN 1 ELSE 2]

InitTwin ==
    /\ x \in TwinInputs
    /\ xtype = "Series"
    /\ groupby = None
    /\ window \in 1..MaxGroupLen
    /\ center \in BOOLEAN
    /\ cutoff \in Cutoffs
    /\ fn \in {"mscore", "sn_score"}
    /\ norm = DefaultNorm(fn)
    /\ pc = "start"
    /\ series = NoSeries
    /\ UtilIdle

\* The caller, holding the ungrouped scores, scores the same sequence again
\* with the same arguments and the grouping key.
CallAgainGrouped ==
    /\ pc = "done"
    /\ xtype = "Series"
    /\ groupby = None
    /\ groupby' = TwinKeys(x)
    /\ series' = GroupedScore(fn, x, groupby', window, center, cutoff, norm)
    /\ x' = XAfterCall(fn, x, window, center, cutoff, norm)
    /\ UNCHANGED <<xtype, window, center, cutoff, norm, fn, pc>>
    /\ UNCHANGED utilVars

NextTwin == CallMscore \/ CallSnScore \/ CallAgainGrouped

SpecTwin == InitTwin /\ [][NextTwin]_vars

\* ------------------------------------------------------------- wrong types
\* What x may be: a Series, a DataFrame, or an object without groupby (a list).
XTypes == {"Series", "DataFrame", "list"}

\* The name of a column of x given as the grouping key.
ByColumn == <<0>>

\* The exception a call ends with.
Raise(e) == [kind |-> "raise", error |-> e]

\* The observations of the wrong-type calls: up to two rows.
TypeInputs == UNION {[1..n -> GroupValues] : n \in 0..2}

InitType ==
    /\ x \in TypeInputs
    /\ xtype \in XTypes
    /\ groupby \in IF xtype = "Series"
                   THEN {None} \cup (IF Len(x) > 0 THEN [1..Len(x) -> Keys] ELSE {})
                   ELSE {None, ByColumn}
    /\ window \in 1..2
    /\ center \in BOOLEAN
    /\ cutoff = 0
    /\ fn \in {"mscore", "sn_score"}
    /\ norm = DefaultNorm(fn)
    /\ pc = "start"
    /\ series = NoSeries
    /\ UtilIdle

\* What mscore / sn_score do with an x of type t that is not a Series.
\* Without a key the assertion on x fails. With a key the function returns
\* x.groupby(key).apply(lambda) before it asserts anything: an object without
\* groupby raises AttributeError; a DataFrame is split and the lambda calls the
\* function on the first group, a DataFrame, whose assertion fails; a DataFrame
\* without rows has no group, the lambda is never called and apply returns
\* the empty result.
WrongTypeOutcome(t, s, key) ==
    IF key = None THEN Raise("AssertionError")
    ELSE IF t = "list" THEN Raise("AttributeError")
    ELSE IF Len(s) > 0 THEN Raise("AssertionError")
    ELSE [kind |-> "return", value |-> NoSeries]

\* The call with an x that is not a Series.
CallWrongType(f) ==
    /\ pc = "start"
    /\ xtype # "Series"
    /\ fn = f
    /\ LET out == WrongTypeOutcome(xtype, x, groupby)
       IN  IF out.kind = "raise"
           THEN pc' = "raised" /\ ret' = out /\ series' = series
           ELSE pc' = "done" /\ ret' = ret /\ series' = out.value
    /\ UNCHANGED <<x, xtype, groupby, window, center, cutoff, norm, fn>>
    /\ UNCHANGED <<call, files, now, parser>>

CallMscoreWrongType == CallWrongType("mscore")

CallSnScoreWrongType == CallWrongType("sn_score")

NextType ==
    \/ CallMscore
    \/ CallSnScore
    \/ CallMscoreGrouped
    \/ CallSnScoreGrouped
    \/ CallMscoreWrongType
    \/ CallSnScoreWrongType

SpecType == InitType /\ [][NextType]_vars

\* ------------------------------------------------------------- repeated call
\* The caller calls the function a second time with the arguments of the
\* first call: the same x object and the same window, center, cutoff, norm.
CallAgain ==
    /\ pc = "done"
    /\ xtype = "Series"
    /\ groupby = None
    /\ series' = Score(fn, x, window, center, cutoff, norm)
    /\ x' = XAfterCall(fn, x, window, center, cutoff, norm)
    /\ UNCHANGED <<xtype, groupby, window, center, cutoff, norm, fn, pc>>
    /\ UNCHANGED utilVars

NextPure == CallMscore \/ CallSnScore \/ CallAgain

SpecPure == Init /\ [][NextPure]_vars

\* ------------------------------------------------------------- integerize
\* float64 counts are held in units of 1/FractionUnit: the entry q stands for
\* q / FractionUnit, and sums and differences of such values are exact.
FractionUnit == 4

MaxRows == 3

MaxQuarters == 6

Seeds == {0, 1}

\* The filter functions are not being called.
FilterIdle ==
    /\ x = <<>> /\ xtype = "Series" /\ groupby = None /\ window = 1
    /\ center = FALSE /\ cutoff = 0 /\ norm = MscoreNorm /\ fn = "none"
    /\ series = NoSeries

RECURSIVE SumSeq(_)
SumSeq(s) == IF s = <<>> THEN 0 ELSE Head(s) + SumSeq(Tail(s))

\* df['floor'] = df['orig'].astype(int), in whole counts.
FloorColumn(orig) == [i \in 1..Len(orig) |-> orig[i] \div FractionUnit]

\* df['rem'] = df['orig'] - df['floor'], in fraction units.
RemColumn(orig) == [i \in 1..Len(orig) |-> orig[i] % FractionUnit]

\* numpy's round of r / FractionUnit for r >= 0: to the nearest integer, a
\* half to the even neighbour.
RoundHalfEven(r) ==
    LET q == r \div FractionUnit
        m == r % FractionUnit
    IN  IF 2 * m < FractionUnit THEN q
        ELSE IF 2 * m > FractionUnit THEN q + 1
        ELSE IF q % 2 = 0 THEN q ELSE q + 1

\* leftovers = df['rem'].sum().round().astype(int)
Leftovers(orig) == RoundHalfEven(SumSeq(RemColumn(orig)))

\* df.sample(n, weights=df['rem'], replace=False, random_state): the sets of
\* n rows a seed can pick, all of them rows of positive weight.
Samples(rem, n) ==
    {R \in SUBSET {i \in 1..Len(rem) : rem[i] > 0} : Cardinality(R) = n}

\* if leftovers == 0: return (df['rem'] * 0)
EarlyReturn(orig) ==
    [kind |-> "return", dtype |-> "float", value |-> [i \in 1..Len(orig) |-> 0]]

\* The results integerize(series_in, random_state) can return.
integerize(orig) ==
    IF Leftovers(orig) = 0 THEN {EarlyReturn(orig)}
    ELSE {[kind |-> "return", dtype |-> "int",
           value |-> [i \in 1..Len(orig) |->
                        (IF i \in R THEN 1 ELSE 0) + FloorColumn(orig)[i]]] :
            R \in Samples(RemColumn(orig), Leftovers(orig))}

IntegerizeInputs == UNION {[1..n -> 0..MaxQuarters] : n \in 0..MaxRows}

InitIntegerize ==
    /\ FilterIdle
    /\ pc = "start"
    /\ call \in {[fn |-> "integerize", series_in |-> s, random_state |-> r] :
                    s \in IntegerizeInputs, r \in Seeds}
    /\ ret = NoRet
    /\ files = {}
    /\ now = 0
    /\ parser = NoParser

CallIntegerize ==
    /\ pc = "start"
    /\ call.fn = "integerize"
    /\ ret' \in integerize(call.series_in)
    /\ pc' = "done"
    /\ UNCHANGED <<x, xtype, groupby, window, center, cutoff, norm, fn, series>>
    /\ UNCHANGED <<call, files, now, parser>>

NextIntegerize == CallIntegerize

SpecIntegerize == InitIntegerize /\ [][NextIntegerize]_vars

\* ------------------------------------------------------------- helpers
\* A Python value is a pair of its type and its text: str() keeps the text and
\* changes the type.
NoneItem == <<"NoneType", "None">>

Items == {NoneItem, <<"int", "1">>, <<"str", "a">>}

MaxItems == 2

MaxStretch == 3

\* The things passed to the helpers: a single value (None, a number, a
\* string) or an iterable of values that is not a string.
Single(v) == [iterable |-> FALSE, items |-> <<v>>]

IterableOf(vs) == [iterable |-> TRUE, items |-> vs]

IsNone(thing) == ~thing.iterable /\ thing.items = <<NoneItem>>

Things ==
    {Single(v) : v \in Items}
        \cup {IterableOf(vs) : vs \in UNION {[1..n -> Items] : n \in 0..MaxItems}}

Messages == {NoneItem, <<"str", "Must specify filename">>}

Return(v) == [kind |-> "return", value |-> v]

RaiseMsg(e, m) == [kind |-> "raise", error |-> e, msg |-> m]

\* str(v)
Str(v) == <<"str", v[2]>>

\* result.extend([result[-1]] * (stretch_length - len(result)))
Stretch(result, n) ==
    result \o [j \in 1..(n - Len(result)) |-> result[Len(result)]]

\* listify(thing, stretch_length, make_strings): what it returns or raises.
listify(thing, stretch_length, make_strings) ==
    LET listed == IF thing.iterable THEN thing.items
                  ELSE IF ~IsNone(thing) THEN thing.items
                  ELSE <<>>
        result == IF make_strings THEN [j \in 1..Len(listed) |-> Str(listed[j])]
                  ELSE listed
    IN  IF ~IsNone(thing) /\ stretch_length > Len(result)
        THEN IF result = <<>> THEN Raise("IndexError")
             ELSE Return(Stretch(result, stretch_length))
        ELSE Return(result)

\* The loop of check_not_none over the listed values, from ok, up to its break.
RECURSIVE CheckLoop(_, _, _)
CheckLoop(vs, require_all, ok) ==
    IF vs = <<>> THEN ok
    ELSE IF require_all
         THEN IF Head(vs) = NoneItem THEN FALSE
              ELSE CheckLoop(Tail(vs), require_all, ok)
         ELSE IF Head(vs) # NoneItem THEN TRUE
              ELSE CheckLoop(Tail(vs), require_all, ok)

\* The check that takes the first value for all of them.
CheckFirstOnly(val, require_all) ==
    IF IsNone(val) THEN FALSE
    ELSE LET vs == listify(val, 0, FALSE).value
         IN  IF vs = <<>> THEN require_all ELSE vs[1] # NoneItem

\* ok as check_not_none computes it.
CheckOk(val, require_all) ==
    IF IsNone(val) THEN FALSE
    ELSE CheckLoop(listify(val, 0, FALSE).value, require_all, require_all)

\* check_not_none(val, require_all, raise_on_fail, msg)
check_not_none(val, require_all, raise_on_fail, msg) ==
    LET ok == CheckOk(val, require_all)
    IN  IF ~ok /\ raise_on_fail
        THEN RaiseMsg("ValueError",
                      IF msg = NoneItem THEN <<"str", "Missing value!">> ELSE msg)
        ELSE Return(ok)

\* The filter functions and the other helpers are at rest.
InitHelpers ==
    /\ FilterIdle
    /\ pc = "start"
    /\ UtilIdle

CallCheckNotNone(val, require_all, raise_on_fail, msg) ==
    /\ call' = [fn |-> "check_not_none", val |-> val, require_all |-> require_all,
                raise_on_fail |-> raise_on_fail, msg |-> msg]
    /\ ret' = check_not_none(val, require_all, raise_on_fail, msg)
    /\ UNCHANGED filterVars
    /\ UNCHANGED <<files, now, parser>>

CallListify(thing, stretch_length, make_strings) ==
    /\ call' = [fn |-> "listify", thing |-> thing,
                stretch_length |-> stretch_length, make_strings |-> make_strings]
    /\ ret' = listify(thing, stretch_length, make_strings)
    /\ UNCHANGED filterVars
    /\ UNCHANGED <<files, now, parser>>

NextHelpers ==
    \/ \E val \in Things, require_all \in BOOLEAN, raise_on_fail \in BOOLEAN,
          msg \in Messages :
          CallCheckNotNone(val, require_all, raise_on_fail, msg)
    \/ \E thing \in Things, stretch_length \in 0..MaxStretch,
          make_strings \in BOOLEAN :
          CallListify(thing, stretch_length, make_strings)

SpecHelpers == InitHelpers /\ [][NextHelpers]_vars

\* ------------------------------------------------------------- safe_filename
\* The clock counts half seconds; the timestamp format has whole seconds.
TicksPerSecond == 2

MaxNow == 3

Names == {"out", "log"}

\* The decimal digits of n >= 0, as strftime writes a number.
RECURSIVE DecimalText(_)
DecimalText(n) ==
    LET digit == <<"0", "1", "2", "3", "4", "5", "6", "7", "8", "9">>
    IN  IF n < 10 THEN digit[n + 1]
        ELSE DecimalText(n \div 10) \o digit[(n % 10) + 1]

\* get_now_dttmstr_local(fmt='%Y%m%d.%H%M%S') at clock t.
DttmStr(t) == DecimalText(t \div TicksPerSecond)

\* The paths that can exist: the names, bare or with a timestamp suffix.
Paths ==
    Names \cup {n \o "_" \o DttmStr(t) : n \in Names, t \in 0..MaxNow}

\* os.path.exists(path)
Exists(path) == path \in files

\* safe_filename that returns the suffixed name without looking for it.
safe_filenameUnchecked(filename, clobber, raise_on_error) ==
    LET checked == check_not_none(Single(filename), TRUE, TRUE,
                                  <<"str", "Must specify filename">>)
    IN  IF checked.kind = "raise" THEN checked
        ELSE IF Exists(filename[2]) /\ ~clobber
        THEN IF raise_on_error
             THEN RaiseMsg("ValueError",
                           <<"str", filename[2] \o " exists and not clobbering!">>)
             ELSE Return(<<"str", filename[2] \o "_" \o DttmStr(now)>>)
        ELSE Return(filename)

\* safe_filename(filename, clobber, raise_on_error) with the files and the
\* clock as they are.
safe_filename(filename, clobber, raise_on_error) ==
    LET checked == check_not_none(Single(filename), TRUE, TRUE,
                                  <<"str", "Must specify filename">>)
    IN  IF checked.kind = "raise" THEN checked
        ELSE IF Exists(filename[2]) /\ ~clobber
        THEN IF raise_on_error
             THEN RaiseMsg("ValueError",
                           <<"str", filename[2] \o " exists and not clobbering!">>)
             ELSE LET return_val == filename[2] \o "_" \o DttmStr(now)
                  IN  IF Exists(return_val)
                      THEN RaiseMsg("ValueError",
                                    <<"str", return_val
                                        \o " exists despite adding timestamp!">>)
                      ELSE Return(<<"str", return_val>>)
        ELSE Return(filename)

InitFiles ==
    /\ FilterIdle
    /\ pc = "start"
    /\ UtilIdle

CallSafeFilename(filename, clobber, raise_on_error) ==
    /\ call' = [fn |-> "safe_filename", filename |-> filename,
                clobber |-> clobber, raise_on_error |-> raise_on_error]
    /\ ret' = safe_filename(filename, clobber, raise_on_error)
    /\ UNCHANGED filterVars
    /\ UNCHANGED <<files, now, parser>>

\* Some program (the caller, with the name it got, or another) makes a file.
CreateFile(path) ==
    /\ path \notin files
    /\ files' = files \cup {path}
    /\ UNCHANGED filterVars
    /\ UNCHANGED <<call, ret, now, parser>>

DeleteFile(path) ==
    /\ path \in files
    /\ files' = files \ {path}
    /\ UNCHANGED filterVars
    /\ UNCHANGED <<call, ret, now, parser>>

\* Time passes.
Tick ==
    /\ now < MaxNow
    /\ now' = now + 1
    /\ UNCHANGED filterVars
    /\ UNCHANGED <<call, ret, files, parser>>

NextFiles ==
    \/ \E filename \in {NoneItem} \cup {<<"str", n>> : n \in Names},
          clobber \in BOOLEAN, raise_on_error \in BOOLEAN :
          CallSafeFilename(filename, clobber, raise_on_error)
    \/ \E path \in Paths : CreateFile(path)
    \/ \E path \in Paths : DeleteFile(path)
    \/ Tick

SpecFiles == InitFiles /\ [][NextFiles]_vars

\* ------------------------------------------------------------- parser
\* The standard option codes, and a code that is none of them.
IntCodes == {"b", "e", "d"}

StrCodes ==
    {"i", "o", "a", "input_path", "output_path", "input_file_prefix",
     "output_file_prefix", "config"}

FlagCodes == {"debug", "restart"}

ValueCodes == IntCodes \cup StrCodes

StdCodes == ValueCodes \cup FlagCodes

\* The attribute of args an option writes.
Dest(opt) ==
    CASE opt = "b" -> "begin"
      [] opt = "e" -> "end"
      [] opt = "d" -> "dateint"
      [] opt = "i" -> "input"
      [] opt = "o" -> "output"
      [] opt = "a" -> "auth_file"
      [] OTHER -> opt

\* A parser value is a pair of its type and a number: dateints are the
\* number, the text of a string is the numeral of its number.
NoneValue == <<"NoneType", 0>>

False == <<"bool", 0>>

True == <<"bool", 1>>

\* The dateints at hand: the last day of a month and the day after.
Dateints == {20200131, 20200201}

MaxOpts == 2

\* The values passed as default=: None, a dateint, the text of one.
Defaults == {NoneValue, <<"int", 20200131>>, <<"str", 20200131>>}

\* type=int / type=str applied to a text.
ConvertText(opt, v) == IF opt \in IntCodes THEN <<"int", v[2]>> ELSE <<"str", v[2]>>

\* get_dateint_with_offset(dttm, offset) for offset 0 or 1 and a dateint at
\* hand: the day itself or the day after it in the calendar.
get_dateint_with_offset(dttm, offset) ==
    IF offset = 0 THEN <<"int", dttm[2]>>
    ELSE IF dttm[2] = 20200131 THEN <<"int", 20200201>>
    ELSE <<"int", dttm[2] + 1>>

\* CommandLineParser(description): no options yet; _now read once.
NewParser(today) == [std_opts |-> {}, defaults |-> <<>>, today |-> today]

\* The default add_argument is given for the option.
DefaultOf(p, opt, default) ==
    IF opt = "d" THEN <<"int", p.today>>
    ELSE IF opt \in FlagCodes THEN False
    ELSE default

\* add_std_command_line_option(opt, default=default) on the parser p: the
\* parser after it and what the call returns or raises. opt is None, a
\* standard code or another string.
add_std_command_line_option(p, opt, default) ==
    LET checked == check_not_none(Single(opt), TRUE, TRUE, NoneItem)
    IN  IF checked.kind = "raise" THEN [parser |-> p, ret |-> checked]
        ELSE IF opt[2] \notin StdCodes
        THEN [parser |-> p, ret |-> Raise("ValueError")]
        ELSE IF opt[2] \in p.std_opts
        THEN [parser |-> p, ret |-> Raise("ArgumentError")]
        ELSE [parser |->
                [p EXCEPT !.std_opts = p.std_opts \cup {opt[2]},
                          !.defaults =
                             [d \in DOMAIN p.defaults \cup {Dest(opt[2])} |->
                                IF d = Dest(opt[2])
                                THEN DefaultOf(p, opt[2], default)
                                ELSE p.defaults[d]]],
              ret |-> Return(NoneValue)]

\* The option whose attribute is d, if one is registered.
OptOf(p, d) == {opt \in p.std_opts : Dest(opt) = d}

\* parse_known_args / parse_args of the command line argv (the options given,
\* each with its text): the namespace. A given option has its converted text
\* (a flag True); an absent one its default, a text default converted by the
\* option's type; attributes set by set_defaults alone keep their value.
Namespace(p, argv) ==
    [d \in DOMAIN p.defaults |->
        IF OptOf(p, d) = {} THEN p.defaults[d]
        ELSE LET opt == CHOOSE o \in OptOf(p, d) : TRUE
             IN  IF opt \in DOMAIN argv
                 THEN IF opt \in FlagCodes THEN True
                      ELSE ConvertText(opt, argv[opt])
                 ELSE IF p.defaults[d][1] = "str"
                      THEN ConvertText(opt, p.defaults[d])
                      ELSE p.defaults[d]]

\* self.set_defaults(begin=..., end=...)
set_defaults(p, begin, end) ==
    [p EXCEPT !.defaults =
        [d \in DOMAIN p.defaults \cup {"begin", "end"} |->
            IF d = "begin" THEN begin
            ELSE IF d = "end" THEN end
            ELSE p.defaults[d]]]

\* _validate_std_args on the command line argv: the parser after it and
\* "ok", or how it ends: a usage error (self.error exits) or the
\* AttributeError of an attribute args does not have.
validate_std_args(p, argv) ==
    LET args == Namespace(p, argv)
        has(d) == d \in DOMAIN args
        begins == "b" \in p.std_opts /\ args["begin"] # NoneValue
        ends == "e" \in p.std_opts /\ args["end"] # NoneValue
    IN  IF begins /\ ~has("end")
        THEN [parser |-> p, ret |-> Raise("AttributeError")]
        ELSE IF begins /\ args["end"] = NoneValue
        THEN [parser |-> p, ret |-> Raise("SystemExit")]
        ELSE IF ends /\ ~has("begin")
        THEN [parser |-> p, ret |-> Raise("AttributeError")]
        ELSE IF ends /\ args["begin"] = NoneValue
        THEN [parser |-> p, ret |-> Raise("SystemExit")]
        ELSE IF begins /\ ends
        THEN IF args["begin"][2] >= args["end"][2]
             THEN [parser |-> p, ret |-> Raise("SystemExit")]
             ELSE [parser |-> p, ret |-> [kind |-> "ok"]]
        ELSE IF "d" \in p.std_opts /\ args["dateint"] # NoneValue
        THEN [parser |->
                set_defaults(p, get_dateint_with_offset(args["dateint"], 0),
                                get_dateint_with_offset(args["dateint"], 1)),
              ret |-> [kind |-> "ok"]]
        ELSE [parser |-> p, ret |-> [kind |-> "ok"]]

\* How the caller hands parse_args a list of its own: not at all, as the
\* keyword args=, or as a positional argument.
Hows == {"none", "keyword", "positional"}

\* parse_args(**kwargs) with sys.argv[1:] = argv. The signature takes no
\* positional argument: a list passed that way is a TypeError. The validation
\* calls parse_known_args() without arguments and so reads argv; the parse
\* proper, super().parse_args(**kwargs), reads args when it is given and
\* argv when it is not.
parse_args(p, argv, how, args) ==
    LET validated == validate_std_args(p, argv)
    IN  IF how = "positional" THEN [parser |-> p, ret |-> Raise("TypeError")]
        ELSE IF validated.ret.kind = "raise" THEN validated
        ELSE [parser |-> validated.parser,
              ret |-> Return(Namespace(validated.parser,
                                       IF how = "keyword" THEN args ELSE argv))]

\* The command lines: some of the registered options, each value option with
\* the text of a dateint, each flag bare.
CommandLines(p) ==
    UNION {{argv \in [given -> {True} \cup {<<"str", d>> : d \in Dateints}] :
               \A opt \in given : argv[opt] = True <=> opt \in FlagCodes} :
           given \in SUBSET p.std_opts}

InitParser ==
    /\ FilterIdle
    /\ pc = "start"
    /\ call = NoCall
    /\ ret = NoRet
    /\ files = {}
    /\ now = 0
    /\ parser \in {NewParser(t) : t \in Dateints}

\* The program adds its options before it parses a command line.
AddStdCommandLineOption(opt, default) ==
    /\ call.fn # "parse_args"
    /\ Cardinality(parser.std_opts) < MaxOpts
    /\ LET out == add_std_command_line_option(parser, opt, default)
       IN  /\ parser' = out.parser
           /\ ret' = out.ret
    /\ call' = [fn |-> "add_std_command_line_option", opt |-> opt,
                default |-> default]
    /\ UNCHANGED filterVars
    /\ UNCHANGED <<files, now>>

ParseArgs(argv, how, args) ==
    /\ how = "none" => args = <<>>
    /\ LET out == parse_args(parser, argv, how, args)
       IN  /\ parser' = out.parser
           /\ ret' = out.ret
    /\ call' = [fn |-> "parse_args", argv |-> argv, how |-> how, args |-> args]
    /\ UNCHANGED filterVars
    /\ UNCHANGED <<files, now>>

NextParser ==
    \/ \E opt \in {NoneItem} \cup {<<"str", c>> : c \in StdCodes \cup {"zz"}},
          default \in Defaults :
          AddStdCommandLineOption(opt, default)
    \/ \E argv \in CommandLines(parser) : ParseArgs(argv, "none", <<>>)

SpecParser == InitParser /\ [][NextParser]_vars

\* ------------------------------------------------------------- parser dates
\* A program with the date options b, e and d, parsing the command line or a
\* list of its own.
NextDates ==
    \/ \E opt \in {<<"str", c>> : c \in IntCodes}, default \in Defaults :
          AddStdCommandLineOption(opt, default)
    \/ \E argv \in CommandLines(parser), how \in Hows,
          args \in CommandLines(parser) :
          ParseArgs(argv, how, args)

SpecDates == InitParser /\ [][NextDates]_vars

\* ------------------------------------------------------------- accessor mid
\* The accessor's data: a Series of up to MaxData records, record number k
\* (from 0) at index k + 1.
MaxData == 4

MaxNum == 3

DataValues == {0, 1}

Datas ==
    {[index |-> PositionIndex(vs), values |-> vs] :
        vs \in UNION {[1..n -> DataValues] : n \in 0..MaxData}}

\* The values of start: integers, and floats in units of 1/FractionUnit.
Starts ==
    {<<"int", n>> : n \in 0..MaxData} \cup {<<"float", q>> : q \in 0..FractionUnit}

\* The records of ser at the positions lo..hi.
Rows(ser, lo, hi) ==
    [index |-> SubSeq(ser.index, lo, hi), values |-> SubSeq(ser.values, lo, hi)]

\* ser.head(n): the first n records, or all but the last -n.
head(ser, n) ==
    LET len == Len(ser.values)
    IN  Rows(ser, 1, IF n >= 0 THEN Clip(n, 0, len) ELSE Clip(len + n, 0, len))

\* ser.tail(n): the last n records, none for n = 0, or all but the first -n.
tail(ser, n) ==
    LET len == Len(ser.values)
    IN  Rows(ser, IF n >= 0 THEN len - Clip(n, 0, len) + 1 ELSE Clip(-n, 0, len) + 1,
             len)

\* int(start * len(self._data)) for a float start >= 0.
FractionOfLength(start, len) == (start[2] * len) \div FractionUnit

\* mid(num, start) on the data.
mid(data, num, start) ==
    LET first == IF start[1] = "int" THEN start[2]
                 ELSE FractionOfLength(start, Len(data.values))
    IN  tail(head(data, first + num), num)

InitMid ==
    /\ FilterIdle
    /\ pc = "start"
    /\ UtilIdle

CallMid(data, num, start) ==
    /\ call' = [fn |-> "mid", data |-> data, num |-> num, start |-> start]
    /\ ret' = Return(mid(data, num, start))
    /\ UNCHANGED filterVars
    /\ UNCHANGED <<files, now, parser>>

NextMid == \E data \in Datas, num \in 0..MaxNum, start \in Starts : CallMid(data, num, start)

SpecMid == InitMid /\ [][NextMid]_vars

\* ---------------------------------------------------- accessor date_between
\* Timestamps count half days from the midnight that begins the first date.
TicksPerDay == 2

DateTexts == <<"2020-01-01", "2020-01-02", "2020-01-03">>

MaxStamps == 2

Stamps == 0..(TicksPerDay * Len(DateTexts) - 1)

StampDatas ==
    {[index |-> PositionIndex(vs), values |-> vs] :
        vs \in UNION {[1..n -> Stamps] : n \in 0..MaxStamps}}

\* The values of start and end: None or the text of a date.
DateItems == {NoneItem} \cup {<<"str", DateTexts[i]>> : i \in DOMAIN DateTexts}

\* pd.to_datetime(text): the midnight that begins the date.
to_datetime(item) ==
    TicksPerDay * ((CHOOSE i \in DOMAIN DateTexts : DateTexts[i] = item[2]) - 1)

\* pd.Timedelta(1, "d")
OneDay == TicksPerDay

\* self.true_pick()
true_pick(data) == [i \in DOMAIN data.values |-> TRUE]

\* self._data[cut]
Pick(data, cut) ==
    LET kept == SelectSeq(PositionIndex(data.values), LAMBDA i : cut[i])
    IN  [index |-> [j \in DOMAIN kept |-> data.index[kept[j]]],
         values |-> [j \in DOMAIN kept |-> data.values[kept[j]]]]

NeedStartOrEnd == <<"str", "Need to specify at least one of the start or end date">>

date_between(data, start, end, eopen) ==
    LET checked == check_not_none(IterableOf(<<start, end>>), TRUE, TRUE, NeedStartOrEnd)
        cut0 == true_pick(data)
        cut1 == IF start # NoneItem
                THEN [i \in DOMAIN cut0 |-> cut0[i] /\ data.values[i] >= to_datetime(start)]
                ELSE cut0
        cut2 == IF end # NoneItem
                THEN IF ~eopen
                     THEN [i \in DOMAIN cut1 |->
                              cut1[i] /\ data.values[i] < to_datetime(end) + OneDay]
                     ELSE [i \in DOMAIN cut1 |->
                              cut1[i] /\ data.values[i] < to_datetime(end)]
                ELSE cut1
    IN  IF checked.kind = "raise" THEN checked ELSE Return(Pick(data, cut2))

InitDateBetween ==
    /\ FilterIdle
    /\ pc = "start"
    /\ UtilIdle

CallDateBetween(data, start, end, eopen) ==
    /\ call' = [fn |-> "date_between", data |-> data, start |-> start, end |-> end,
                eopen |-> eopen]
    /\ ret' = date_between(data, start, end, eopen)
    /\ UNCHANGED filterVars
    /\ UNCHANGED <<files, now, parser>>

NextDateBetween ==
    \E data \in StampDatas, start \in DateItems, end \in DateItems, eopen \in BOOLEAN :
        CallDateBetween(data, start, end, eopen)

SpecDateBetween == InitDateBetween /\ [][NextDateBetween]_vars

\* ------------------------------------------------------------- properties
\* The quantities the properties speak of, defined by what they are rather
\* than by how the code computes them.

Min(a, b) == IF a < b THEN a ELSE b

\* v is the k-th smallest entry of s: fewer than k entries lie below it and at
\* least k entries do not exceed it.
IsKthSmallest(s, k, v) ==
    /\ \E j \in DOMAIN s : s[j] = v
    /\ Cardinality({j \in DOMAIN s : s[j] < v}) < k
    /\ Cardinality({j \in DOMAIN s : s[j] <= v}) >= k

KthSmallest(s, k) ==
    CHOOSE v \in {s[j] : j \in DOMAIN s} : IsKthSmallest(s, k, v)

\* Twice the median of a non-empty s: the sum of its two middle order
\* statistics (the same one twice when the length is odd).
TwiceMedian(s) ==
    KthSmallest(s, (Len(s) + 1) \div 2) + KthSmallest(s, (Len(s) + 2) \div 2)

\* The positions of the rolling window at i: a trailing window holds i and
\* the w - 1 positions before it; a centred one w \div 2 positions before i
\* and (w - 1) \div 2 after it; both cut to the sequence.
WindowPositions(n, i, w, c) ==
    IF c THEN {j \in 1..n : i - (w \div 2) <= j /\ j <= i + ((w - 1) \div 2)}
    ELSE {j \in 1..n : i - w < j /\ j <= i}

\* The values at a non-empty interval of positions P, in order.
ValuesAt(s, P) ==
    LET lo == CHOOSE j \in P : \A k \in P : j <= k
    IN  [j \in 1..Cardinality(P) |-> s[lo + j - 1]]

WindowAt(s, i, w, c) == ValuesAt(s, WindowPositions(Len(s), i, w, c))

\* Twice the rolling median at i.
TwiceMedianAt(s, i, w, c) == TwiceMedian(WindowAt(s, i, w, c))

\* Four times the median absolute deviation from the rolling median.
FourMad(s, w, c) ==
    TwiceMedian([i \in 1..Len(s) |-> Abs(2 * s[i] - TwiceMedianAt(s, i, w, c))])

\* The float f is the rational n / d (d # 0).
IsRatio(f, n, d) == IsFinite(f) /\ f[1] * d = n * f[2]

MscoreDone == pc = "done" /\ fn = "mscore" /\ groupby = None

SnScoreDone == pc = "done" /\ fn = "sn_score" /\ groupby = None

\* C1: mscore without a grouping key and without a cutoff: when the median
\* absolute deviation MAD of x from its rolling median is positive, the score
\* at every position i is (x[i] - median[i]) * norm / MAD.
C1_MscoreFormula ==
    (MscoreDone /\ cutoff = 0 /\ Len(x) > 0) =>
        LET mad4 == FourMad(x, window, center)
        IN  mad4 > 0 =>
              \A i \in 1..Len(x) :
                 /\ i \in DOMAIN series.values
                 /\ IsRatio(series.values[i],
                        2 * (2 * x[i] - TwiceMedianAt(x, i, window, center)) * norm[1],
                        mad4 * norm[2])

\* C1 witness: a centred window shorter than the sequence, an even number of
\* observations, a positive MAD and a score that is not zero.
C1_Witness ==
    /\ MscoreDone /\ cutoff = 0 /\ center /\ window = 2 /\ Len(x) = 4
    /\ FourMad(x, window, center) > 0
    /\ \E i \in 1..Len(x) : IsFinite(series.values[i]) /\ series.values[i][1] < 0

Constant(s) == \A i, j \in DOMAIN s : s[i] = s[j]

\* C3: mscore of a constant sequence of any length >= 1 is NaN at every
\* position, for every window, centring flag and cutoff.
C3_ConstantAllNaN ==
    (MscoreDone /\ Len(x) >= 1 /\ Constant(x)) =>
        /\ Len(series.values) = Len(x)
        /\ \A i \in 1..Len(x) : series.values[i] = NaN

C3_Witness ==
    /\ MscoreDone /\ Len(x) = 3 /\ Constant(x) /\ x[1] = 3 /\ window = 2
    /\ series.values = <<NaN, NaN, NaN>>

\* C8: mscore with a cutoff (a non-zero one: 0 is the "no cutoff" default):
\* a position whose rolling median is below the cutoff scores NaN, and every
\* other position keeps the score the call without a cutoff computes.
C8_MscoreCutoff ==
    (MscoreDone /\ cutoff # 0) =>
        \A i \in 1..Len(x) :
           /\ TwiceMedianAt(x, i, window, center) < 2 * cutoff
                 => series.values[i] = NaN
           /\ TwiceMedianAt(x, i, window, center) >= 2 * cutoff
                 => series.values[i] =
                      mscore(x, window, center, 0, norm).values[i]

\* C8 witness: one position is cut, another one has its median exactly at the
\* cutoff and keeps a finite score.
C8_Witness ==
    /\ MscoreDone /\ cutoff # 0
    /\ \E i, j \in 1..Len(x) :
          /\ TwiceMedianAt(x, i, window, center) < 2 * cutoff
          /\ mscore(x, window, center, 0, norm).values[i] # NaN
          /\ TwiceMedianAt(x, j, window, center) = 2 * cutoff
          /\ IsFinite(series.values[j])

\* Twice the median absolute difference between the element k of the window d
\* and the elements of d (itself included).
TwiceMedianDiff(d, k) == TwiceMedian([j \in 1..Len(d) |-> Abs(d[j] - d[k])])

\* Four times the scale Sn of the window d: the median over the elements of d
\* of each element's median absolute difference.
FourSn(d) == TwiceMedian([k \in 1..Len(d) |-> TwiceMedianDiff(d, k)])

\* Four times the numerator of the window d: the median absolute difference
\* of its last element.
FourNumerator(d) == 2 * TwiceMedianDiff(d, Len(d))

FourSnAt(i) == FourSn(WindowAt(x, i, window, center))

FourNumeratorAt(i) == FourNumerator(WindowAt(x, i, window, center))

\* The float f is norm * (numerator - Sn) / Sn of the window at i.
IsSnFormulaAt(f, i) ==
    IsRatio(f, norm[1] * (FourNumeratorAt(i) - FourSnAt(i)), norm[2] * FourSnAt(i))

BelowCutoffAt(i) == cutoff # 0 /\ FourSnAt(i) < 4 * cutoff

Zero == <<0, 1>>

\* C2 as stated: wherever the quotient is finite (Sn # 0), the sn_score at i
\* is norm * (numerator - Sn) / Sn of the rolling window at i.
C2_SnFormulaAsStated ==
    SnScoreDone =>
        \A i \in 1..Len(x) :
           FourSnAt(i) # 0 => IsSnFormulaAt(series.values[i], i)

\* C2 amended: the same, at the positions whose Sn is not below a non-zero
\* cutoff.
C2_SnFormula ==
    SnScoreDone =>
        \A i \in 1..Len(x) :
           (FourSnAt(i) # 0 /\ ~BelowCutoffAt(i))
              => /\ i \in DOMAIN series.values
                 /\ IsSnFormulaAt(series.values[i], i)

\* C2 witness: a full trailing window of four observations with a score that
\* is neither zero nor an integer multiple of norm.
C2_Witness ==
    /\ SnScoreDone /\ ~center /\ window = 4 /\ Len(x) = 4
    /\ FourSnAt(4) # 0 /\ ~BelowCutoffAt(4)
    /\ FourNumeratorAt(4) > FourSnAt(4)
    /\ (FourNumeratorAt(4) - FourSnAt(4)) % FourSnAt(4) # 0
    /\ IsFinite(series.values[4]) /\ series.values[4][1] > 0

\* C4: sn_score of a sequence with two distinct values is finite (neither
\* infinite nor NaN) at every position, for every window and cutoff.
C4_SnNeverInfNaN ==
    (SnScoreDone /\ ~Constant(x)) =>
        \A i \in 1..Len(series.values) : IsFinite(series.values[i])

\* C4 witness: a sequence with distinct values in which one window has Sn = 0
\* and a positive numerator (the quotient is infinite) and another window has
\* Sn = 0 = numerator (the quotient is undefined).
C4_Witness ==
    /\ SnScoreDone /\ ~Constant(x)
    /\ \E i, j \in 1..Len(x) :
          /\ FourSnAt(i) = 0 /\ FourNumeratorAt(i) > 0
          /\ FourSnAt(j) = 0 /\ FourNumeratorAt(j) = 0
    /\ \A i \in 1..Len(x) : IsFinite(series.values[i])

C9_SnCutoffNaNAsStated ==
    SnScoreDone =>
        \A i \in 1..Len(x) :
           FourSnAt(i) < 4 * cutoff => series.values[i] = NaN

\* C9 amended: every position whose Sn is below the cutoff is zero in the
\* returned sequence (it is marked NaN and the NaN is then filled with 0).
C9_SnCutoffZero ==
    SnScoreDone =>
        \A i \in 1..Len(x) :
           FourSnAt(i) < 4 * cutoff => series.values[i] = Zero

\* C9 witness: a position below the cutoff whose quotient is finite and not
\* zero, so that only the cutoff makes its score zero.
C9_Witness ==
    /\ SnScoreDone
    /\ \E i \in 1..Len(x) :
          /\ FourSnAt(i) < 4 * cutoff
          /\ FourSnAt(i) # 0
          /\ FourNumeratorAt(i) # FourSnAt(i)
          /\ series.values[i] = Zero

\* C10: at every position whose window holds fewer than two points or whose
\* Sn is 0 the sn_score is exactly zero.
C10_DegenerateZero ==
    SnScoreDone =>
        \A i \in 1..Len(x) :
           (Cardinality(WindowPositions(Len(x), i, window, center)) < 2
              \/ FourSnAt(i) = 0)
              => series.values[i] = Zero

\* C10 witness: a window of one point, and a window of three points with
\* Sn = 0 and a positive numerator.
C10_Witness ==
    /\ SnScoreDone /\ window = 3 /\ ~center /\ Len(x) >= 3
    /\ Cardinality(WindowPositions(Len(x), 1, window, center)) = 1
    /\ series.values[1] = Zero
    /\ \E i \in 3..Len(x) :
          /\ FourSnAt(i) = 0 /\ FourNumeratorAt(i) > 0
          /\ series.values[i] = Zero

\* The observations of the trailing window of w positions that ends at i.
TrailingWindow(s, i, w) == ValuesAt(s, {j \in 1..Len(s) : i - w < j /\ j <= i})

\* The score at i is the score the window's values alone produce.
C7_WindowOnly ==
    (SnScoreDone /\ ~center) =>
        \A i \in 1..Len(x) :
           LET d == TrailingWindow(x, i, window)
           IN  series.values[i] =
                 sn_score(d, window, FALSE, cutoff, norm).values[Len(d)]

\* Scoring a second sequence that agrees with the first on the positions up
\* to i leaves the scores up to i as they were.
C7_PrefixStable ==
    (SnScoreDone /\ ~center /\ pc' = "done") =>
        \A i \in 1..Min(Len(x), Len(x')) :
           (\A j \in 1..i : x[j] = x'[j])
              => series'.values[i] = series.values[i]

\* C7: sn_score with its trailing window is causal: the score at i depends
\* only on the values at the positions i - window + 1 .. i, and two sequences
\* that agree up to i have the same scores up to i.
C7_SnCausal == [](C7_WindowOnly) /\ [][C7_PrefixStable]_vars

\* C7 witness: a trailing window shorter than the sequence, whose score at an
\* inner position is not zero while a later value differs from every value
\* of that window.
C7_Witness ==
    /\ SnScoreDone /\ ~center /\ window = 3 /\ Len(x) = 4
    /\ series.values[3] # Zero
    /\ \A j \in 1..3 : x[4] # x[j]

GroupedDone == pc = "done" /\ groupby # None

\* The positions of the group g, and the rank of a position within them.
Members(g) == {i \in 1..Len(x) : groupby[i] = g}

Rank(P, i) == Cardinality({k \in P : k <= i})

\* The group's subsequence: the values of s at the positions P, in order.
Subsequence(s, P) ==
    [r \in 1..Cardinality(P) |-> s[CHOOSE i \in P : Rank(P, i) = r]]

\* The scores a grouped result ser holds for the group g, by input position.
GroupScores(ser, g) ==
    {<<ser.index[j][2], ser.values[j]>> :
        j \in {k \in 1..Len(ser.index) : ser.index[k][1] = g}}

\* The scores of the group g, each found at the position it belongs to, are
\* the scores of the group's subsequence scored alone.
C6_GroupAlone ==
    GroupedDone =>
        \A g \in Keys :
           LET P == Members(g)
               alone == Score(fn, Subsequence(x, P), window, center, cutoff, norm)
           IN  GroupScores(series, g) = {<<i, alone.values[Rank(P, i)]>> : i \in P}

\* Scoring again after values of other groups changed leaves the scores of
\* the group g as they were.
C6_OtherGroupsUntouched ==
    (GroupedDone /\ pc' = "done") =>
        \A g \in Keys :
           (\A i \in Members(g) : x'[i] = x[i])
              => GroupScores(series', g) = GroupScores(series, g)

\* C6: with a grouping key the scores of each group are the scores of that
\* group's subsequence scored alone with the same window, center, cutoff and
\* norm, and changing the values of one group never changes the scores of
\* another group.
C6_GroupIsolation == [](C6_GroupAlone) /\ [][C6_OtherGroupsUntouched]_vars

\* C6 witness: two interleaved groups with different values; the second
\* group has a score that is not zero, which the whole sequence scored
\* without the key does not give at that position.
C6_Witness ==
    /\ GroupedDone /\ Len(x) = 3 /\ groupby = <<2, 1, 2>>
    /\ \E j \in 1..3 :
          /\ series.index[j] = <<2, 3>>
          /\ IsFinite(series.values[j]) /\ series.values[j] # Zero
          /\ series.values[j] #
                Score(fn, x, window, center, cutoff, norm).values[3]

\* The float f exceeds the float g (false when either is NaN).
Exceeds(f, g) ==
    /\ f # NaN /\ g # NaN
    /\ IF IsFinite(f) /\ IsFinite(g) THEN f[1] * g[2] > g[1] * f[2]
       ELSE IF IsFinite(f) THEN g = NegInf
       ELSE IF IsFinite(g) THEN f = PosInf
       ELSE f = PosInf /\ g = NegInf

\* The conventional outlier threshold of the modified Z-score, 3.5.
OutlierThreshold == <<7, 2>>

\* C11: mscore of [1,2,3,4,100] with window 5 and the other arguments at their
\* defaults scores the last position above the outlier threshold 3.5, and no
\* other position above it.
C11_ExampleFlagsLast ==
    (MscoreDone /\ x = ExampleInput) =>
        /\ Len(series.values) = Len(x)
        /\ \A i \in 1..Len(x) :
              Exceeds(series.values[i], OutlierThreshold) <=> i = Len(x)

\* C11 witness: the example scored; its last score is 96 * 0.6745 / 0.5.
C11_Witness ==
    /\ MscoreDone /\ x = ExampleInput /\ window = 5 /\ center
    /\ series.values[5] = <<16188, 125>>
    /\ series.values[3] = Zero

\* The window of position i lies entirely inside one group of the keys.
WindowInOneGroup(keys, i) ==
    \A j \in WindowPositions(Len(keys), i, window, center) : keys[j] = keys[i]

\* The score the grouped result ser holds for position i of the input.
GroupedScoreAt(ser, keys, i) ==
    CHOOSE v \in {p[2] : p \in GroupScores(ser, keys[i])} :
        <<i, v>> \in GroupScores(ser, keys[i])

\* The grouped scores (series') and the ungrouped ones (series) agree at i.
AgreeAt(i) ==
    /\ <<groupby'[i], i>> \in {series'.index[j] : j \in 1..Len(series'.index)}
    /\ GroupedScoreAt(series', groupby', i) = series.values[i]

ScoredAgainGrouped == pc = "done" /\ groupby = None /\ groupby' # None

\* C12 as stated: for a sequence of two identical groups, the grouped and the
\* ungrouped scores agree at every position whose rolling window lies inside
\* one group, for mscore and for sn_score.
C12_GroupingInvariantAsStated ==
    [][ScoredAgainGrouped =>
          \A i \in 1..Len(x) : WindowInOneGroup(groupby', i) => AgreeAt(i)]_vars

\* Four times the median absolute deviation of s from its rolling median.
FourMadOf(s) ==
    LET n == Len(s)
        dev2 == [i \in 1..n |->
                   Abs(2 * s[i]
                       - TwiceMedian(ValuesAt(s, WindowPositions(n, i, window, center))))]
    IN  2 * TwiceMedian(dev2)

\* C12: for a sequence of two identical groups, the grouped and the ungrouped
\* scores agree at every position whose rolling window lies inside one group:
\* always for sn_score, and for mscore when the median absolute deviation of
\* the whole sequence equals that of one group.
C12_GroupingInvariant ==
    [][(/\ ScoredAgainGrouped
        /\ fn = "mscore" =>
              FourMadOf(x) = FourMadOf(SubSeq(x, 1, Len(x) \div 2)))
       => \A i \in 1..Len(x) : WindowInOneGroup(groupby', i) => AgreeAt(i)]_vars

\* C12 witness: a twin sequence whose deviation is that of one group, scored
\* by mscore both ways with a window that crosses the boundary at some
\* positions and not at others, and a score that is neither zero nor NaN.
C12_Witness ==
    /\ pc = "done" /\ groupby # None /\ groupby = TwinKeys(x) /\ Len(x) = 6
    /\ window = 2
    /\ fn = "mscore"
    /\ FourMadOf(x) = FourMadOf(SubSeq(x, 1, Len(x) \div 2))
    /\ \E i \in 1..Len(x) : ~WindowInOneGroup(groupby, i)
    /\ \E i \in 1..Len(x) :
          /\ WindowInOneGroup(groupby, i)
          /\ GroupedScoreAt(series, groupby, i) \notin {Zero, NaN}

\* C13: a call of mscore or sn_score with an x that is not a Series fails: it
\* ends with an exception, no score computed and no result returned.
C13_WrongTypeFails ==
    (xtype # "Series" /\ pc # "start") =>
        /\ pc = "raised"
        /\ ret.kind = "raise"
        /\ series = NoSeries

\* C13 for the calls without a grouping key and the keyed calls with rows.
C13_WrongTypeFailsWithRows ==
    (xtype # "Series" /\ pc # "start" /\ (groupby = None \/ Len(x) > 0)) =>
        /\ pc = "raised"
        /\ ret.kind = "raise"
        /\ series = NoSeries

IntegerizeDone == pc = "done" /\ call.fn = "integerize"

\* The sum of the entries of s, each once.
Total(s) ==
    LET RECURSIVE Upto(_)
        Upto(n) == IF n = 0 THEN 0 ELSE s[n] + Upto(n - 1)
    IN  Upto(Len(s))

\* C15: the counts integerize returns sum to an integer closest to the sum of
\* the input: the two sums differ by at most one half.
C15_SumClosestInteger ==
    IntegerizeDone =>
        /\ Len(ret.value) = Len(call.series_in)
        /\ 2 * Abs(FractionUnit * Total(ret.value) - Total(call.series_in))
              <= FractionUnit

\* The integer part of the value q / FractionUnit, q >= 0.
IntegerPart(q) ==
    CHOOSE k \in 0..q : FractionUnit * k <= q /\ q < FractionUnit * (k + 1)

\* C16: integerize gives the row of value x + f (x the integer part,
\* 0 <= f < 1) at least x and at most x + 1 counts, and exactly x when f = 0.
C16_RowBounds ==
    IntegerizeDone =>
        \A i \in 1..Len(call.series_in) :
           LET k == IntegerPart(call.series_in[i])
           IN  /\ ret.value[i] \in {k, k + 1}
               /\ call.series_in[i] = FractionUnit * k => ret.value[i] = k

\* C15 and C16 hold of the calls that have counts left over to distribute.
C15_C16_WithLeftovers ==
    (IntegerizeDone /\ 2 * Total([i \in 1..Len(call.series_in) |->
                           call.series_in[i] - FractionUnit * IntegerPart(call.series_in[i])])
                        > FractionUnit) =>
        /\ 2 * Abs(FractionUnit * Total(ret.value) - Total(call.series_in))
              <= FractionUnit
        /\ \A i \in 1..Len(call.series_in) :
              LET k == IntegerPart(call.series_in[i])
              IN  /\ ret.value[i] \in {k, k + 1}
                  /\ call.series_in[i] = FractionUnit * k => ret.value[i] = k

CheckNotNoneDone == call.fn = "check_not_none"

\* The values contained in val: its items, or val itself when it is single.
Contained(val) == {val.items[j] : j \in 1..Len(val.items)}

\* The condition under which check_not_none is to succeed.
ShouldSucceed(val, require_all) ==
    /\ ~(~val.iterable /\ val.items[1] = NoneItem)
    /\ IF require_all THEN NoneItem \notin Contained(val)
       ELSE \E v \in Contained(val) : v # NoneItem

\* C17: check_not_none returns True exactly when val is not None and no
\* contained value is None (require_all) or some contained value is not None
\* (not require_all); otherwise it raises ValueError when raise_on_fail and
\* returns False when not.
C17_CheckNotNone ==
    CheckNotNoneDone =>
        IF ShouldSucceed(call.val, call.require_all)
        THEN ret.kind = "return" /\ ret.value = TRUE
        ELSE IF call.raise_on_fail
             THEN ret.kind = "raise" /\ ret.error = "ValueError"
             ELSE ret.kind = "return" /\ ret.value = FALSE

\* C17 witness: an iterable with a None after a value that is not None fails
\* the check of all and raises.
C17_Witness ==
    /\ CheckNotNoneDone
    /\ call.val.iterable /\ call.val.items = <<<<"int", "1">>, NoneItem>>
    /\ call.require_all /\ call.raise_on_fail
    /\ ret.kind = "raise"

ListifyDone == call.fn = "listify"

\* C18: listify of a thing that is not None returns a list of length
\* max(n, stretch_length), n the number of items of the thing (1 for a single
\* value): the items in order, then the last item repeated; listify(None)
\* returns the empty list.
C18_Listify ==
    (ListifyDone /\ ~call.make_strings) =>
        LET thing == call.thing
            n == Len(thing.items)
        IN  /\ ret.kind = "return"
            /\ IF ~thing.iterable /\ thing.items[1] = NoneItem
               THEN ret.value = <<>>
               ELSE /\ Len(ret.value) = IF n > call.stretch_length THEN n
                                        ELSE call.stretch_length
                    /\ \A j \in 1..Len(ret.value) :
                          ret.value[j] = thing.items[IF j <= n THEN j ELSE n]

\* C18 holds of the things that have an item to repeat.
C18_ListifyNonEmpty ==
    (ListifyDone /\ ~call.make_strings
        /\ (call.thing.items # <<>> \/ call.stretch_length = 0)) =>
        LET thing == call.thing
            n == Len(thing.items)
        IN  /\ ret.kind = "return"
            /\ IF ~thing.iterable /\ thing.items[1] = NoneItem
               THEN ret.value = <<>>
               ELSE /\ Len(ret.value) = IF n > call.stretch_length THEN n
                                        ELSE call.stretch_length
                    /\ \A j \in 1..Len(ret.value) :
                          ret.value[j] = thing.items[IF j <= n THEN j ELSE n]

\* A step that is a call of safe_filename on a filename: the files and the
\* clock are those the call saw.
SafeFilenameStep ==
    /\ call'.fn = "safe_filename"
    /\ call'.filename # NoneItem
    /\ files' = files
    /\ now' = now

\* The filename with the suffix of the current second.
Suffixed(name) ==
    name \o "_"
         \o DecimalText(CHOOSE sec \in 0..now :
                        /\ TicksPerSecond * sec <= now
                        /\ now < TicksPerSecond * (sec + 1))

ListParsed(c) == IF c.how = "none" THEN c.argv ELSE c.args

\* A step that parses a command line right after a value option was added
\* with default=v, the option absent from the command line, the parse
\* returning args.
ParsedAfterAdding ==
    /\ call.fn = "add_std_command_line_option"
    /\ ret.kind = "return"
    /\ call.opt[2] \in ValueCodes
    /\ call'.fn = "parse_args"
    /\ call.opt[2] \notin DOMAIN ListParsed(call')
    /\ ret'.kind = "return"

\* C20: the default=v passed to add_std_command_line_option with a value
\* option is the value of the option's argument when the command line does
\* not have the option.
C20_DefaultIsValue ==
    [][ParsedAfterAdding => ret'.value[Dest(call.opt[2])] = call.default]_vars

\* C20 holds of the options other than d when v is not a text an int option
\* converts, and is not a None that -d fills in for begin and end.
C20_DefaultIsValueButDateint ==
    [][(/\ ParsedAfterAdding
        /\ call.opt[2] # "d"
        /\ call.opt[2] \in IntCodes => call.default[1] # "str"
        /\ call.default = NoneValue => "d" \notin parser.std_opts)
       => ret'.value[Dest(call.opt[2])] = call.default]_vars

\* The attribute d has a value in the parse of the list: an option that
\* writes it is on the list, or its default is not None.
Supplied(list, d) ==
    \/ \E opt \in DOMAIN list : opt \in parser.std_opts /\ Dest(opt) = d
    \/ d \in DOMAIN parser.defaults /\ parser.defaults[d] # NoneValue

\* The dateint supplied for d: the one on the list, else the default.
SuppliedDateint(list, d) ==
    IF \E opt \in DOMAIN list : Dest(opt) = d
    THEN list[CHOOSE opt \in DOMAIN list : Dest(opt) = d][2]
    ELSE parser.defaults[d][2]

\* What the parse of the list owes the dates: a usage error when one of begin
\* and end is supplied without the other or begin is not before end.
DatesValidated(list) ==
    LET begins == Supplied(list, "begin")
        ends == Supplied(list, "end")
        ordered == SuppliedDateint(list, "begin") < SuppliedDateint(list, "end")
    IN  /\ (begins # ends \/ (begins /\ ends /\ ~ordered))
              => ret'.kind = "raise" /\ ret'.error = "SystemExit"
        /\ (ret'.kind = "return" /\ begins /\ ends) => ordered

\* C21: for every argument list given to parse_args, the parse ends in a usage
\* error when begin is supplied without end, end without begin, or both with
\* begin >= end; a parse that returns with both supplied has begin < end.
C21_DatesValidated ==
    [][call'.fn = "parse_args" => DatesValidated(ListParsed(call'))]_vars

\* C21 holds of the parser with both b and e when parse_args is left to read
\* the command line.
C21_CommandLineValidated ==
    [][(/\ call'.fn = "parse_args"
        /\ call'.how = "none"
        /\ {"b", "e"} \subseteq parser.std_opts)
       => DatesValidated(call'.argv)]_vars

\* The record number mid is to begin at: start itself when it is an integer,
\* the integer part of start times the length when it is not.
BeginsAt(c) ==
    IF c.start[1] = "int" THEN c.start[2]
    ELSE CHOOSE b \in 0..(c.start[2] * Len(c.data.values)) :
            /\ FractionUnit * b <= c.start[2] * Len(c.data.values)
            /\ c.start[2] * Len(c.data.values) < FractionUnit * (b + 1)

\* The result holds k consecutive records of the data from record number b on.
ConsecutiveFrom(result, data, b, k) ==
    /\ Len(result.index) = k
    /\ Len(result.values) = k
    /\ \A j \in 1..k :
          /\ result.index[j] = data.index[b + j]
          /\ result.values[j] = data.values[b + j]

\* C22: mid(num, start) with num >= 1 and a start inside the data returns
\* consecutive records, at most num of them, the first being record number
\* start (an integer start) or int(start * length) (a start that is not).
C22_MidBeginsAtStart ==
    (call.fn = "mid" /\ call.num >= 1 /\ BeginsAt(call) < Len(call.data.values)) =>
        \E k \in 1..call.num :
           /\ BeginsAt(call) + k <= Len(call.data.values)
           /\ ConsecutiveFrom(ret.value, call.data, BeginsAt(call), k)

\* C22 holds of the calls whose num records from start on all exist.
C22_MidInsideData ==
    (call.fn = "mid" /\ call.num >= 1
        /\ BeginsAt(call) + call.num <= Len(call.data.values)) =>
        ConsecutiveFrom(ret.value, call.data, BeginsAt(call), call.num)

\* The first instant after the dates up to end: the midnight that begins end
\* when the end date is excluded, the midnight that ends it when it is not.
EndLimit(c) ==
    (CHOOSE i \in DOMAIN DateTexts : DateTexts[i] = c.end[2]) * TicksPerDay
        - (IF c.eopen THEN TicksPerDay ELSE 0)

StartLimit(c) ==
    ((CHOOSE i \in DOMAIN DateTexts : DateTexts[i] = c.start[2]) - 1) * TicksPerDay

\* The positions of the data whose values lie on the right side of the given
\* bounds.
Between(c) ==
    {i \in DOMAIN c.data.values :
        /\ c.start # NoneItem => c.data.values[i] >= StartLimit(c)
        /\ c.end # NoneItem => c.data.values[i] < EndLimit(c)}

\* The outcome is the return of exactly the records at the positions, in the
\* order of the data.
ReturnsRecords(r, data, positions) ==
    /\ r.kind = "return"
    /\ Len(r.value.index) = Cardinality(positions)
    /\ Len(r.value.values) = Cardinality(positions)
    /\ \A j \in DOMAIN r.value.index :
          /\ r.value.index[j] \in positions
          /\ r.value.values[j] = data.values[r.value.index[j]]
          /\ j > 1 => r.value.index[j - 1] < r.value.index[j]

\* C23: date_between raises ValueError only when start and end are both
\* None; given exactly one of them it returns the values bounded on that side
\* only (those >= start, or those before end).
C23_NeedsStartOrEnd ==
    call.fn = "date_between" =>
        /\ ret.kind = "raise" => (call.start = NoneItem /\ call.end = NoneItem)
        /\ (call.start = NoneItem) # (call.end = NoneItem) =>
              ReturnsRecords(ret, call.data, Between(call))

\* What date_between does: ValueError with its message when either of start
\* and end is None, the values from start up to end when both are given.
C23_NeedsStartAndEnd ==
    call.fn = "date_between" =>
        IF call.start = NoneItem \/ call.end = NoneItem
        THEN ret = RaiseMsg("ValueError", NeedStartOrEnd)
        ELSE ReturnsRecords(ret, call.data, Between(call))

====
